---- MODULE Spec2Model ----
(***************************************************************************)
(* Model of the inpinity-rpc-proxy worker (src/src/index.ts):              *)
(*   - the claims ledger kept as one JSON array under the KV key           *)
(*     'claimed' (getClaims / saveClaims / addClaim, /claims endpoints);   *)
(*   - the RPC forwarder with one backup attempt (isRetryable, rpcForward, *)
(*     /rpc and /simulate endpoints).                                      *)
(* Every await of a handler is a point where other requests may run, so a  *)
(* POST /claims is split into its steps: validation, the remote fetch, the *)
(* KV get and the KV put.                                                  *)
(***************************************************************************)
EXTENDS Integers, Sequences, FiniteSets, TLC

VARIABLES env, remoteClaims, kv, req, getResp, rpc, now, bhCache, bh, relay

vars == <<env, remoteClaims, kv, req, getResp, rpc, now, bhCache, bh, relay>>

\* the clock, the blockhash cache and the requests that use them
gw == <<now, bhCache, bh, relay>>

(* ------------------------------ bounds -------------------------------- *)
\* number of POST /claims requests that may be in flight together
NReq == 2
\* value of the MAX_INDEX setting in the modelled deployment
MAX_INDEX == 1
\* number of GET /claims requests observed
MaxGets == 1
\* number of GET /latest-blockhash requests that may be in flight together
NCall == 2
\* number of clock advances observed
MaxTicks == 2

Reqs == 1..NReq

(* ------------------------------ helpers ------------------------------- *)
Range(s) == {s[k] : k \in DOMAIN s}

\* Array.prototype.includes
Includes(arr, x) == \E k \in DOMAIN arr : arr[k] = x

\* Array.prototype.push
Push(arr, x) == Append(arr, x)

(* --------------------------- request bodies --------------------------- *)
\* the `index` member of a POST /claims body: typ is its typeof, int is
\* Number.isInteger, v the value (its floor for a fraction).  "badjson" is a
\* body readJsonSafe rejects (unparsable or too large).
Num(n) == [typ |-> "number", int |-> TRUE, v |-> n]

BadJson == [typ |-> "badjson", int |-> FALSE, v |-> 0]

Missing == [typ |-> "undefined", int |-> FALSE, v |-> 0]

NotNumber == [typ |-> "string", int |-> FALSE, v |-> 0]

Fraction == [typ |-> "number", int |-> FALSE, v |-> 0]

NumInputs == {Num(n) : n \in -1..(MAX_INDEX + 1)}

Inputs == {BadJson, Missing, NotNumber, Fraction} \cup NumInputs

\* the test of the POST /claims handler, negated
IsValidIndexNoSign(in) == in.typ = "number" /\ in.int

IsValidIndex(in) == in.typ = "number" /\ in.int /\ ~(in.v < 0)

\* status of the catch block around the POST /claims handler
CatchStatusOk == IF TRUE THEN 200 ELSE 400

CatchStatus == 400

(* ------------------------------ KV store ------------------------------ *)
\* the value under key 'claimed': absent, or the JSON text of an array
NoValue == [set |-> FALSE, val |-> <<>>]

Stored(arr) == [set |-> TRUE, val |-> arr]

\* JSON.parse of the raw value in getClaims; the worker only ever stores
\* JSON.stringify of an array of integers, which parses back to that array
ParseClaims(raw) == IF ~raw.set THEN <<>> ELSE raw.val

\* lists the remote claims endpoint may serve
RemoteLists == {<<>>, <<0>>}

(* ------------------------------ requests ------------------------------ *)
IdleReq == [pc |-> "idle", input |-> Missing, arr |-> <<>>, status |-> 0,
            gets |-> 0, puts |-> 0, fail |-> FALSE]

Done(r) == req[r].pc = "done"

InFlight(r) == req[r].pc \notin {"idle", "done"}

Quiescent == \A r \in Reqs : ~InFlight(r)

\* indices answered 200 so far
Granted == {req[r].input.v : r \in {q \in Reqs : Done(q) /\ req[q].status = 200}}

\* number of POST /claims answered 200 so far
Grants == Cardinality({q \in Reqs : Done(q) /\ req[q].status = 200})

\* the ETag of GET /claims, W/"c<length>-<first>-<last>": the three numbers
\* the string is formatted from, -1 standing for a missing element
ETagOf(claimed) ==
    [count |-> Len(claimed),
     first |-> IF Len(claimed) = 0 THEN 0 - 1 ELSE claimed[1],
     last |-> IF Len(claimed) = 0 THEN 0 - 1 ELSE claimed[Len(claimed)]]

NoTag == [count |-> 0 - 1, first |-> 0 - 1, last |-> 0 - 1]

\* the body of GET /claims/stats, computed from new Set(claimed)
StatsOf(claimed) ==
    [max_index |-> MAX_INDEX,
     claimed_count |-> Cardinality(Range(claimed)),
     free_count |-> (MAX_INDEX + 1) - Cardinality(Range(claimed))]

NoStats == [max_index |-> 0, claimed_count |-> 0, free_count |-> 0]

\* the loop of GET /claims/free from i on
RECURSIVE FreeFrom(_, _)
FreeFrom(i, set) ==
    IF i > MAX_INDEX THEN <<>>
    ELSE (IF i \in set THEN <<>> ELSE <<i>>) \o FreeFrom(i + 1, set)

FreeOf(claimed) == FreeFrom(0, Range(claimed))

\* the last GET answered: its route, whether it was answered or threw, and
\* the members of its answer
NoGet == [n |-> 0, outcome |-> "none", body |-> <<>>, route |-> "none",
          etag |-> NoTag, stats |-> NoStats, free |-> <<>>]

(* ----------------------------- RPC forward ---------------------------- *)
\* what one rpcOnce call ends in: a thrown transport error or a Response;
\* src names the endpoint that produced it
Throw == [k |-> "throw", status |-> 0, body |-> "", src |-> "none"]

Resp(s, b, src) == [k |-> "resp", status |-> s, body |-> b, src |-> src]

Statuses == {200, 400, 403, 404, 429, 499, 500, 503, 599}

Bodies == {"result", "error", "garbage"}

Outcomes(src) == {Throw} \cup {Resp(s, b, src) : s \in Statuses, b \in Bodies}

isRetryableAnyError(s) == s >= 400 /\ s <= 599

\* rpcForward without the catch around the primary attempt
rpcForwardThrowEnds(e, p, b) ==
    IF p.k = "throw"
    THEN [resp |-> Resp(599, "UPSTREAM error", "worker"), attempts |-> <<"primary">>]
    ELSE IF ~(p.status = 403 \/ p.status = 429 \/ (p.status >= 500 /\ p.status <= 599))
    THEN [resp |-> p, attempts |-> <<"primary">>]
    ELSE IF e.BACKUP_RPC
    THEN IF b.k = "resp"
         THEN [resp |-> b, attempts |-> <<"primary", "backup">>]
         ELSE [resp |-> Resp(599, "UPSTREAM+BACKUP error", "worker"),
               attempts |-> <<"primary", "backup">>]
    ELSE [resp |-> Resp(599, "UPSTREAM error", "worker"), attempts |-> <<"primary">>]

isRetryable(s) == s = 403 \/ s = 429 \/ (s >= 500 /\ s <= 599)

\* rpcForward for a primary that ends in p and a backup that, if contacted,
\* ends in b: the Response returned and the endpoints attempted, in order
rpcForward(e, p, b) ==
    IF p.k = "resp" /\ ~isRetryable(p.status)
    THEN [resp |-> p, attempts |-> <<"primary">>]
    ELSE IF e.BACKUP_RPC
    THEN IF b.k = "resp"
         THEN [resp |-> b, attempts |-> <<"primary", "backup">>]
         ELSE [resp |-> Resp(599, "UPSTREAM+BACKUP error", "worker"),
               attempts |-> <<"primary", "backup">>]
    ELSE [resp |-> Resp(599, "UPSTREAM error", "worker"), attempts |-> <<"primary">>]

NoFwd == [resp |-> Throw, attempts |-> <<>>]

NoRpc == [route |-> "none", forwarded |-> FALSE, p |-> Throw, b |-> Throw,
          fwd |-> NoFwd, status |-> 0, body |-> ""]

\* answer of /rpc and /simulate to a body that was not forwarded
Refused(route, msg) ==
    [route |-> route, forwarded |-> FALSE, p |-> Throw, b |-> Throw,
     fwd |-> NoFwd, status |-> 400, body |-> msg]

\* answer of /rpc and /simulate that mirrors the forwarded call; p and b are
\* what the primary and (when it was attempted) the backup ended in
Mirrored(route, p, b, f) ==
    [route |-> route, forwarded |-> TRUE, p |-> p,
     b |-> IF Len(f.attempts) = 2 THEN b ELSE Throw,
     fwd |-> f, status |-> f.resp.status, body |-> f.resp.body]

\* POST /rpc
RpcPost ==
    /\ \E bodyOk \in BOOLEAN, p \in Outcomes("primary"), b \in Outcomes("backup") :
         rpc' = IF ~bodyOk THEN Refused("/rpc", "Bad JSON or too large")
                ELSE Mirrored("/rpc", p, b, rpcForward(env, p, b))
    /\ UNCHANGED <<env, remoteClaims, kv, req, getResp, gw>>

\* POST /simulate
SimulatePost ==
    /\ \E body \in {"badjson", "notx", "tx"}, p \in Outcomes("primary"),
          b \in Outcomes("backup") :
         rpc' = IF body = "badjson" THEN Refused("/simulate", "Bad JSON or too large")
                ELSE IF body = "notx" THEN Refused("/simulate", "Missing tx (base64)")
                ELSE Mirrored("/simulate", p, b, rpcForward(env, p, b))
    /\ UNCHANGED <<env, remoteClaims, kv, req, getResp, gw>>

(* --------------------------- blockhash cache -------------------------- *)
BLOCKHASH_TTL_MS == 10000

\* the clock advances by half a TTL at a time
TickMs == BLOCKHASH_TTL_MS \div 2

Callers == 1..NCall

\* Response.ok
IsOk(status) == status >= 200 /\ status <= 299

\* bodies of a getLatestBlockhash answer: json tells whether r.json() parses,
\* valueBh is result.value.blockhash and resultBh is result.blockhash ("" when
\* absent)
BhBody(js, v, r) == [json |-> js, valueBh |-> v, resultBh |-> r]

BhBodies == {BhBody(TRUE, "h1", ""), BhBody(TRUE, "", "h2"), BhBody(TRUE, "", ""),
             BhBody(FALSE, "", "")}

GwStatuses == {200, 404, 500}

\* upstream answers to getLatestBlockhash: any body with 200, and error
\* statuses with and without a blockhash in the body
BhOutcomes(src) ==
    {Throw} \cup {Resp(200, b, src) : b \in BhBodies}
            \cup {Resp(404, BhBody(TRUE, "", ""), src), Resp(500, BhBody(TRUE, "h1", ""), src)}

\* _lastBlockhash and _lastBlockTs
NoCache == [value |-> "", ts |-> 0]

\* the TTL test of getLatestBlockhash at time t (first with the comparison
\* turned round)
CacheHitInverted(cache, t) == cache.value # "" /\ t - cache.ts >= BLOCKHASH_TTL_MS

CacheHit(cache, t) == cache.value # "" /\ t - cache.ts < BLOCKHASH_TTL_MS

\* j?.result?.value?.blockhash || j?.result?.blockhash
BlockhashOf(body) == IF body.valueBh # "" THEN body.valueBh ELSE body.resultBh

\* getLatestBlockhash after rpcForward returned r: the blockhash, or the
\* error thrown (first a variant that falls back to the cached value)
FetchedOrCached(cache, r) ==
    IF IsOk(r.status) /\ r.body.json /\ BlockhashOf(r.body) # ""
    THEN [ok |-> TRUE, bh |-> BlockhashOf(r.body)]
    ELSE [ok |-> cache.value # "", bh |-> cache.value]

Fetched(cache, r) ==
    IF ~IsOk(r.status) THEN [ok |-> FALSE, bh |-> ""]
    ELSE IF ~r.body.json THEN [ok |-> FALSE, bh |-> ""]
    ELSE IF BlockhashOf(r.body) = "" THEN [ok |-> FALSE, bh |-> ""]
    ELSE [ok |-> TRUE, bh |-> BlockhashOf(r.body)]

\* the cache cell after a getLatestBlockhash call that read the clock at t
\* (first a variant that keeps the entry with the newer timestamp)
CacheAfterKeepNewest(cache, res, t) ==
    IF res.ok /\ t >= cache.ts THEN [value |-> res.bh, ts |-> t] ELSE cache

\* (and a variant that stamps the cell before the answer is examined)
CacheAfterStampsFailure(cache, res, t) ==
    IF res.ok THEN [value |-> res.bh, ts |-> t] ELSE [cache EXCEPT !.ts = t]

CacheAfter(cache, res, t) == IF res.ok THEN [value |-> res.bh, ts |-> t] ELSE cache

\* the blockhash a gateway response carries, "" if the response is not ok,
\* does not parse or has none
GatewayGave(r) ==
    IF r.k = "resp" /\ r.status \in 200..299 /\ r.body.json
    THEN IF r.body.valueBh # "" THEN r.body.valueBh ELSE r.body.resultBh
    ELSE ""

\* one GET /latest-blockhash request: t is Date.now() at the start of
\* getLatestBlockhash, hit whether the cache answered, fetches the number of
\* rpcForward calls made, gave the blockhash in rpcForward's answer
IdleCall == [pc |-> "idle", t |-> 0, hit |-> FALSE, status |-> 0, value |-> "",
             fetches |-> 0, gave |-> ""]

\* GET /latest-blockhash: read the clock and test the cache
BhStart(c) ==
    /\ bh[c].pc = "idle"
    /\ bh' = [bh EXCEPT ![c] =
                IF CacheHit(bhCache, now)
                THEN [@ EXCEPT !.pc = "done", !.t = now, !.hit = TRUE, !.status = 200,
                               !.value = bhCache.value]
                ELSE [@ EXCEPT !.pc = "fetch", !.t = now]]
    /\ UNCHANGED <<env, remoteClaims, kv, req, getResp, rpc, now, bhCache, relay>>

\* GET /latest-blockhash: rpcForward has answered
BhFetch(c) ==
    /\ bh[c].pc = "fetch"
    /\ \E p \in BhOutcomes("primary"), b \in BhOutcomes("backup") :
         LET r == rpcForward(env, p, b).resp
             res == Fetched(bhCache, r)
         IN  /\ bhCache' = CacheAfter(bhCache, res, bh[c].t)
             /\ bh' = [bh EXCEPT ![c] =
                         [@ EXCEPT !.pc = "done", !.fetches = @ + 1, !.gave = GatewayGave(r),
                                   !.status = IF res.ok THEN 200 ELSE 502,
                                   !.value = res.bh]]
    /\ UNCHANGED <<env, remoteClaims, kv, req, getResp, rpc, now, relay>>

\* time passes
Tick ==
    /\ now < MaxTicks * TickMs
    /\ now' = now + TickMs
    /\ UNCHANGED <<env, remoteClaims, kv, req, getResp, rpc, bhCache, bh, relay>>

(* -------------------------------- relay ------------------------------- *)
\* strings are sequences of characters; String.prototype.trim
RECURSIVE TrimStart(_)
TrimStart(str) ==
    IF str = <<>> THEN str
    ELSE IF Head(str) = " " THEN TrimStart(Tail(str)) ELSE str

RECURSIVE TrimEnd(_)
TrimEnd(str) ==
    IF str = <<>> THEN str
    ELSE IF str[Len(str)] = " " THEN TrimEnd(SubSeq(str, 1, Len(str) - 1)) ELSE str

Trim(str) == TrimEnd(TrimStart(str))

\* values of CREATOR_PUBKEY (<<>> when it is not set) and of body.signer
\* (<<>> when it is missing)
Keys == {<<>>, <<"K">>, <<"K", " ">>, <<" ">>}

Signers == {<<>>, <<"K">>, <<" ", "K">>, <<"W">>, <<" ">>}

\* bodies of POST /relay: json is FALSE for a body readJsonSafe rejects, tx
\* tells whether body.tx is there
RelayBody(js, tx, rc, sg, cf) ==
    [json |-> js, tx |-> tx, requireCreator |-> rc, signer |-> sg, confirm |-> cf]

RelayInputs ==
    {RelayBody(FALSE, FALSE, FALSE, <<>>, FALSE)}
    \cup {RelayBody(TRUE, tx, rc, sg, cf) :
             tx \in BOOLEAN, rc \in BOOLEAN, sg \in Signers, cf \in BOOLEAN}

\* the creator gate: "pass", or the status it answers
CreatorGateForbiddenFirst(key, signer) ==
    IF Trim(signer) = <<>> \/ Trim(signer) # Trim(key) THEN "403"
    ELSE IF Trim(key) = <<>> THEN "412" ELSE "pass"

CreatorGateSignerOptional(key, signer) ==
    IF Trim(key) = <<>> THEN "412"
    ELSE IF Trim(signer) # <<>> /\ Trim(signer) # Trim(key) THEN "403"
    ELSE "pass"

CreatorGate(key, signer) ==
    LET need == Trim(key)
        got == Trim(signer)
    IN  IF need = <<>> THEN "412"
        ELSE IF got = <<>> \/ got # need THEN "403"
        ELSE "pass"

GateStatus(g) == IF g = "412" THEN 412 ELSE 403

\* upstream answers to sendRawTransaction and confirmTransaction
SendOutcomes(src) == {Throw} \cup {Resp(st, b, src) : st \in GwStatuses, b \in Bodies}

\* sendResp.json().catch(() => ({})): which of error and result the body has,
\* and the result
ParseJson(r) ==
    IF r.body = "result"
    THEN [error |-> FALSE, hasResult |-> TRUE,
          result |-> IF r.src = "primary" THEN "sigP" ELSE "sigB"]
    ELSE IF r.body = "error" THEN [error |-> TRUE, hasResult |-> FALSE, result |-> ""]
    ELSE [error |-> FALSE, hasResult |-> FALSE, result |-> ""]

\* the test that ends the relay after the send call
SendFailedStatusOnly(r) == ~IsOk(r.status)

SendFailed(r) == ~IsOk(r.status) \/ ParseJson(r).error

\* body.confirm
WantsConfirmAlways(in) == in.confirm \/ in.tx

WantsConfirm(in) == in.confirm

\* one POST /relay request.  kind is the shape of the answer ("text",
\* "error" or "signature"), hasSig whether it carries a signature; sends,
\* bhCalls, bhFetches and confirms count the sendRawTransaction forwards,
\* the getLatestBlockhash calls, their forwards and the confirmTransaction
\* forwards; sendResp is what the send forward returned, bhv the blockhash
\* put in the confirm call
IdleRelay ==
    [pc |-> "idle", input |-> RelayBody(FALSE, FALSE, FALSE, <<>>, FALSE),
     status |-> 0, kind |-> "none", hasSig |-> FALSE, sig |-> "", confirm |-> "",
     sends |-> 0, bhCalls |-> 0, bhFetches |-> 0, confirms |-> 0,
     sent |-> FALSE, sendResp |-> Throw, t |-> 0, bhv |-> ""]

\* POST /relay: read the body, apply the creator gate, issue the send
RelayStart ==
    /\ relay.pc = "idle"
    /\ \E in \in RelayInputs :
         LET g == CreatorGate(env.CREATOR_PUBKEY, in.signer)
         IN  relay' =
               IF ~in.json \/ ~in.tx
               THEN [relay EXCEPT !.pc = "done", !.input = in, !.status = 400,
                                  !.kind = "text"]
               ELSE IF in.requireCreator /\ g # "pass"
               THEN [relay EXCEPT !.pc = "done", !.input = in,
                                  !.status = GateStatus(g), !.kind = "text"]
               ELSE [relay EXCEPT !.pc = "send", !.input = in, !.sends = 1]
    /\ UNCHANGED <<env, remoteClaims, kv, req, getResp, rpc, now, bhCache, bh>>

\* POST /relay: the send forward has answered; on success either answer the
\* signature or go on to getLatestBlockhash (clock and cache test) and,
\* on a cache hit, to the confirm forward
RelaySend ==
    /\ relay.pc = "send"
    /\ \E p \in SendOutcomes("primary"), b \in SendOutcomes("backup") :
         LET r == rpcForward(env, p, b).resp
             j == ParseJson(r)
             got == [relay EXCEPT !.sent = TRUE, !.sendResp = r]
         IN  relay' =
               IF SendFailed(r)
               THEN [got EXCEPT !.pc = "done", !.status = 502, !.kind = "error"]
               ELSE IF ~WantsConfirm(relay.input)
               THEN [got EXCEPT !.pc = "done", !.status = 200, !.kind = "signature",
                                !.hasSig = j.hasResult, !.sig = j.result]
               ELSE IF CacheHit(bhCache, now)
               THEN [got EXCEPT !.pc = "confirm", !.hasSig = j.hasResult,
                                !.sig = j.result, !.t = now, !.bhCalls = 1,
                                !.bhv = bhCache.value, !.confirms = 1]
               ELSE [got EXCEPT !.pc = "bhfetch", !.hasSig = j.hasResult,
                                !.sig = j.result, !.t = now, !.bhCalls = 1,
                                !.bhFetches = 1]
    /\ UNCHANGED <<env, remoteClaims, kv, req, getResp, rpc, now, bhCache, bh>>

\* POST /relay: the blockhash forward has answered; a failure is swallowed
\* and the confirm forward is issued either way
RelayBhFetch ==
    /\ relay.pc = "bhfetch"
    /\ \E p \in BhOutcomes("primary"), b \in BhOutcomes("backup") :
         LET res == Fetched(bhCache, rpcForward(env, p, b).resp)
         IN  /\ bhCache' = CacheAfter(bhCache, res, relay.t)
             /\ relay' = [relay EXCEPT !.pc = "confirm", !.bhv = res.bh,
                                        !.confirms = 1]
    /\ UNCHANGED <<env, remoteClaims, kv, req, getResp, rpc, now, bh>>

\* POST /relay: the confirm forward has answered
RelayConfirm ==
    /\ relay.pc = "confirm"
    /\ \E p \in SendOutcomes("primary"), b \in SendOutcomes("backup") :
         LET j == ParseJson(rpcForward(env, p, b).resp)
         IN  relay' = [relay EXCEPT !.pc = "done", !.status = 200,
                                    !.kind = "signature",
                                    !.confirm = IF j.hasResult THEN j.result ELSE "null"]
    /\ UNCHANGED <<env, remoteClaims, kv, req, getResp, rpc, now, bhCache, bh>>

\* the next POST /relay arrives
RelayNext ==
    /\ relay.pc = "done"
    /\ relay' = IdleRelay
    /\ UNCHANGED <<env, remoteClaims, kv, req, getResp, rpc, now, bhCache, bh>>

GwInit ==
    /\ now = 0
    /\ bhCache = NoCache
    /\ bh = [c \in Callers |-> IdleCall]
    /\ relay = IdleRelay

(* GET /latest-blockhash requests running together *)
InitBh ==
    /\ env \in {[REMOTE_CLAIMS_URL |-> FALSE, BACKUP_RPC |-> b, CREATOR_PUBKEY |-> <<>>] :
                   b \in BOOLEAN}
    /\ remoteClaims = <<>>
    /\ kv = NoValue
    /\ req = [r \in Reqs |-> IdleReq]
    /\ getResp = NoGet
    /\ rpc = NoRpc
    /\ GwInit

NextBh ==
    \/ \E c \in Callers : BhStart(c)
    \/ \E c \in Callers : BhFetch(c)
    \/ Tick

SpecBh == InitBh /\ [][NextBh]_vars

(* POST /relay requests, one at a time, while time passes *)
InitRelay ==
    /\ env \in {[REMOTE_CLAIMS_URL |-> FALSE, BACKUP_RPC |-> b, CREATOR_PUBKEY |-> k] :
                   b \in BOOLEAN, k \in Keys}
    /\ remoteClaims = <<>>
    /\ kv = NoValue
    /\ req = [r \in Reqs |-> IdleReq]
    /\ getResp = NoGet
    /\ rpc = NoRpc
    /\ GwInit

NextRelay ==
    \/ RelayStart
    \/ RelaySend
    \/ RelayBhFetch
    \/ RelayConfirm
    \/ RelayNext
    \/ Tick

SpecRelay == InitRelay /\ [][NextRelay]_vars

\* every awaited forward of a relay settles: rpcForward and the json() calls
\* return or throw, and every throw is caught
RelayFairness ==
    /\ WF_vars(RelaySend)
    /\ WF_vars(RelayBhFetch)
    /\ WF_vars(RelayConfirm)

SpecRelayFair == InitRelay /\ [][NextRelay]_vars /\ RelayFairness

(* GET /latest-blockhash requests one after another, in the order of their
   numbers *)
SeqBhStart(c) ==
    /\ \A d \in Callers : (d < c => bh[d].pc = "done") /\ (d > c => bh[d].pc = "idle")
    /\ BhStart(c)

NextBhSeq ==
    \/ \E c \in Callers : SeqBhStart(c)
    \/ \E c \in Callers : BhFetch(c)
    \/ Tick

SpecBhSeq == InitBh /\ [][NextBhSeq]_vars

(* ------------------------------ claims -------------------------------- *)
\* outcome of addClaim for the list getClaims returned (first without the
\* includes test)
addClaimResultNoIncludes(arr, idx) == IF idx < 0 THEN "exists" ELSE "created"

addClaimResult(arr, idx) == IF Includes(arr, idx) THEN "exists" ELSE "created"

\* status the POST /claims handler answers for addClaim's result
PostStatus(res) == IF res = "exists" THEN 409 ELSE 200

\* continuation of addClaim once getClaims has returned arr: either answer
\* 'exists', or push the index and issue the KV put
AfterGetClaims(r, arr) ==
    LET idx == req[r].input.v
    IN  IF addClaimResult(arr, idx) = "exists"
        THEN [req[r] EXCEPT !.pc = "done", !.arr = arr,
                            !.status = PostStatus("exists")]
        ELSE [req[r] EXCEPT !.pc = "put", !.arr = Push(arr, idx)]

\* POST /claims: read the body and validate the index
PostStart(r) ==
    /\ req[r].pc = "idle"
    /\ \E in \in Inputs :
         req' = [req EXCEPT ![r] =
                   IF in.typ = "badjson"
                   THEN [@ EXCEPT !.pc = "done", !.input = in, !.status = CatchStatus]
                   ELSE IF ~IsValidIndex(in)
                   THEN [@ EXCEPT !.pc = "done", !.input = in, !.status = 400]
                   ELSE [@ EXCEPT !.pc = IF env.REMOTE_CLAIMS_URL THEN "remote" ELSE "kvget",
                                  !.input = in]]
    /\ UNCHANGED <<env, remoteClaims, kv, getResp, rpc, gw>>

\* getClaims: the remote fetch answers with a usable list
GetClaimsRemoteOk(r) ==
    /\ req[r].pc = "remote"
    /\ req' = [req EXCEPT ![r] = AfterGetClaims(r, remoteClaims)]
    /\ UNCHANGED <<env, remoteClaims, kv, getResp, rpc, gw>>

\* getClaims: the remote fetch throws, is not ok or is not a list
GetClaimsRemoteFail(r) ==
    /\ req[r].pc = "remote"
    /\ req' = [req EXCEPT ![r].pc = "kvget"]
    /\ UNCHANGED <<env, remoteClaims, kv, getResp, rpc, gw>>

\* getClaims: the KV get returns the stored value
GetClaimsKv(r) ==
    /\ req[r].pc = "kvget"
    /\ req' = [req EXCEPT ![r] =
                 [AfterGetClaims(r, ParseClaims(kv)) EXCEPT !.gets = req[r].gets + 1]]
    /\ UNCHANGED <<env, remoteClaims, kv, getResp, rpc, gw>>

\* getClaims: the KV get throws; the handler's catch answers
GetClaimsKvFail(r) ==
    /\ req[r].pc = "kvget"
    /\ req' = [req EXCEPT ![r] = [@ EXCEPT !.pc = "done", !.status = CatchStatus,
                                            !.fail = TRUE]]
    /\ UNCHANGED <<env, remoteClaims, kv, getResp, rpc, gw>>

\* saveClaims: the KV put stores the list, the handler answers 'created'
SaveClaims(r) ==
    /\ req[r].pc = "put"
    /\ kv' = Stored(req[r].arr)
    /\ req' = [req EXCEPT ![r] = [@ EXCEPT !.pc = "done", !.puts = @ + 1,
                                            !.status = PostStatus("created")]]
    /\ UNCHANGED <<env, remoteClaims, getResp, rpc, gw>>

\* saveClaims: the KV put throws; the handler's catch answers
SaveClaimsFail(r) ==
    /\ req[r].pc = "put"
    /\ req' = [req EXCEPT ![r] = [@ EXCEPT !.pc = "done", !.status = CatchStatus,
                                            !.fail = TRUE]]
    /\ UNCHANGED <<env, remoteClaims, kv, getResp, rpc, gw>>

\* the list GET /claims serves from a reachable store
ClaimsBody(viaRemote) == IF viaRemote THEN remoteClaims ELSE ParseClaims(kv)

\* GET /claims; n counts the GETs answered
GetClaimsReq ==
    /\ getResp.n < MaxGets
    /\ \E viaRemote \in {b \in BOOLEAN : b => env.REMOTE_CLAIMS_URL}, kvOk \in BOOLEAN :
         getResp' = [NoGet EXCEPT
                       !.n = getResp.n + 1,
                       !.route = "/claims",
                       !.outcome = IF viaRemote \/ kvOk THEN "ok" ELSE "throws",
                       !.body = IF viaRemote \/ kvOk THEN ClaimsBody(viaRemote) ELSE <<>>,
                       !.etag = IF viaRemote \/ kvOk THEN ETagOf(ClaimsBody(viaRemote))
                                ELSE NoTag]
    /\ UNCHANGED <<env, remoteClaims, kv, req, rpc, gw>>

\* GET /claims/stats
GetStatsReq ==
    /\ getResp.n < MaxGets
    /\ \E viaRemote \in {b \in BOOLEAN : b => env.REMOTE_CLAIMS_URL}, kvOk \in BOOLEAN :
         getResp' = [NoGet EXCEPT
                       !.n = getResp.n + 1,
                       !.route = "/claims/stats",
                       !.outcome = IF viaRemote \/ kvOk THEN "ok" ELSE "throws",
                       !.stats = IF viaRemote \/ kvOk THEN StatsOf(ClaimsBody(viaRemote))
                                 ELSE NoStats]
    /\ UNCHANGED <<env, remoteClaims, kv, req, rpc, gw>>

\* GET /claims/free
GetFreeReq ==
    /\ getResp.n < MaxGets
    /\ \E viaRemote \in {b \in BOOLEAN : b => env.REMOTE_CLAIMS_URL}, kvOk \in BOOLEAN :
         getResp' = [NoGet EXCEPT
                       !.n = getResp.n + 1,
                       !.route = "/claims/free",
                       !.outcome = IF viaRemote \/ kvOk THEN "ok" ELSE "throws",
                       !.free = IF viaRemote \/ kvOk THEN FreeOf(ClaimsBody(viaRemote))
                                ELSE <<>>]
    /\ UNCHANGED <<env, remoteClaims, kv, req, rpc, gw>>

\* the next POST /claims arrives
PostNext(r) ==
    /\ req[r].pc = "done"
    /\ req' = [req EXCEPT ![r] = IdleReq]
    /\ UNCHANGED <<env, remoteClaims, kv, getResp, rpc, gw>>

ClaimsInit ==
    /\ env \in {[REMOTE_CLAIMS_URL |-> u, BACKUP_RPC |-> FALSE, CREATOR_PUBKEY |-> <<>>] :
                   u \in BOOLEAN}
    /\ remoteClaims \in (IF env.REMOTE_CLAIMS_URL THEN RemoteLists ELSE {<<>>})
    /\ kv = NoValue
    /\ req = [r \in Reqs |-> IdleReq]
    /\ getResp = NoGet
    /\ rpc = NoRpc
    /\ GwInit

Init == ClaimsInit

Next ==
    \/ \E r \in Reqs : PostStart(r)
    \/ \E r \in Reqs : GetClaimsRemoteOk(r)
    \/ \E r \in Reqs : GetClaimsRemoteFail(r)
    \/ \E r \in Reqs : GetClaimsKv(r)
    \/ \E r \in Reqs : GetClaimsKvFail(r)
    \/ \E r \in Reqs : SaveClaims(r)
    \/ \E r \in Reqs : SaveClaimsFail(r)
    \/ GetClaimsReq

Spec == Init /\ [][Next]_vars

(* POST /claims and GET /claims over a store that already holds a list and
   has no remote list *)
StartLists == {<<>>, <<0>>, <<1, 0>>}

InitStore ==
    /\ env = [REMOTE_CLAIMS_URL |-> FALSE, BACKUP_RPC |-> FALSE, CREATOR_PUBKEY |-> <<>>]
    /\ remoteClaims = <<>>
    /\ kv \in {NoValue} \cup {Stored(l) : l \in StartLists}
    /\ req = [r \in Reqs |-> IdleReq]
    /\ getResp = NoGet
    /\ rpc = NoRpc
    /\ GwInit

NextStore ==
    \/ \E r \in Reqs : PostStart(r)
    \/ \E r \in Reqs : GetClaimsKv(r)
    \/ \E r \in Reqs : GetClaimsKvFail(r)
    \/ \E r \in Reqs : SaveClaims(r)
    \/ \E r \in Reqs : SaveClaimsFail(r)
    \/ GetClaimsReq

SpecStore == InitStore /\ [][NextStore]_vars

(* the GET routes of the claims store while POST /claims requests keep
   arriving; the store holds the list an earlier POST /claims stored *)
InitView ==
    /\ env = [REMOTE_CLAIMS_URL |-> FALSE, BACKUP_RPC |-> FALSE, CREATOR_PUBKEY |-> <<>>]
    /\ remoteClaims = <<>>
    /\ kv = Stored(<<MAX_INDEX + 2>>)
    /\ req = [r \in Reqs |-> IdleReq]
    /\ getResp = NoGet
    /\ rpc = NoRpc
    /\ GwInit

NextView ==
    \/ \E r \in Reqs : PostStart(r)
    \/ \E r \in Reqs : GetClaimsKv(r)
    \/ \E r \in Reqs : GetClaimsKvFail(r)
    \/ \E r \in Reqs : SaveClaims(r)
    \/ \E r \in Reqs : SaveClaimsFail(r)
    \/ \E r \in Reqs : PostNext(r)
    \/ GetClaimsReq
    \/ GetStatsReq
    \/ GetFreeReq

SpecView == InitView /\ [][NextView]_vars

(* the same routes over a store that holds a list of indices within
   0..MAX_INDEX *)
SpecStats == InitStore /\ [][NextView]_vars

(* the RPC endpoints on their own *)
InitRpc ==
    /\ env \in {[REMOTE_CLAIMS_URL |-> FALSE, BACKUP_RPC |-> b, CREATOR_PUBKEY |-> <<>>] :
                   b \in BOOLEAN}
    /\ remoteClaims = <<>>
    /\ kv = NoValue
    /\ req = [r \in Reqs |-> IdleReq]
    /\ getResp = NoGet
    /\ rpc = NoRpc
    /\ GwInit

NextRpc == RpcPost \/ SimulatePost

SpecRpc == InitRpc /\ [][NextRpc]_vars

(* requests handled strictly one after another *)
SeqPostStart(r) == Quiescent /\ PostStart(r)

SeqGetClaimsReq == Quiescent /\ GetClaimsReq

InitSeq == ClaimsInit

NextSeq ==
    \/ \E r \in Reqs : SeqPostStart(r)
    \/ \E r \in Reqs : GetClaimsRemoteOk(r)
    \/ \E r \in Reqs : GetClaimsRemoteFail(r)
    \/ \E r \in Reqs : GetClaimsKv(r)
    \/ \E r \in Reqs : GetClaimsKvFail(r)
    \/ \E r \in Reqs : SaveClaims(r)
    \/ \E r \in Reqs : SaveClaimsFail(r)
    \/ SeqGetClaimsReq

SpecSeq == InitSeq /\ [][NextSeq]_vars

(* ------------------------- claims properties -------------------------- *)
\* requests that carried the valid index i
ReqsFor(i) == {r \in Reqs : req[r].pc # "idle" /\ IsValidIndex(req[r].input)
                             /\ req[r].input.v = i}

Started == {r \in Reqs : req[r].pc # "idle"}

AnsweredWith(S, st) == {r \in S : Done(r) /\ req[r].status = st}

AllIndices == 0..(MAX_INDEX + 1)

\* C1: when N >= 2 POST /claims requests for the same index, unclaimed
\* before them, have all been answered (the store being reachable), exactly
\* one of them was answered 200 and the other N-1 were answered 409.
C1_ExactlyOneGranted ==
    \A i \in AllIndices :
        ( /\ Cardinality(ReqsFor(i)) >= 2
          /\ Started = ReqsFor(i)
          /\ ~Includes(remoteClaims, i)
          /\ \A r \in ReqsFor(i) : Done(r) /\ ~req[r].fail )
        => /\ Cardinality(AnsweredWith(ReqsFor(i), 200)) = 1
           /\ Cardinality(AnsweredWith(ReqsFor(i), 409)) = Cardinality(ReqsFor(i)) - 1

\* C2: at most one POST /claims per index is ever answered 200, whatever
\* other indices are claimed meanwhile.
C2_AtMostOneGrantPerIndex ==
    \A i \in AllIndices : Cardinality(AnsweredWith(ReqsFor(i), 200)) <= 1

\* C4: an index that is in the persisted list after its POST /claims was
\* answered 200 is in the persisted list in the next state too.
C4_GrantNeverUndone ==
    [][\A i \in AllIndices :
          (Includes(kv.val, i) /\ AnsweredWith(ReqsFor(i), 200) # {})
          => Includes(kv'.val, i)]_vars

\* C5: a GET /claims made when K POST /claims for K distinct indices have
\* been answered 200 and no request is in flight returns exactly those K
\* indices (stated for the KV list alone, no remote list configured).
C5_ListHasEveryGrant ==
    [][( /\ getResp'.n # getResp.n
         /\ getResp'.outcome = "ok"
         /\ Quiescent
         /\ ~env.REMOTE_CLAIMS_URL
         /\ Grants = Cardinality(Granted) )
       => /\ Range(getResp'.body) = Granted
          /\ Len(getResp'.body) = Grants]_vars

\* C6: the step in which the KV get or the KV put of a POST /claims fails
\* ends the request with an error status that is neither 200 nor 409 and
\* leaves the persisted list as it was.
C6_StoreFailureFailsClosed ==
    [][\A r \in Reqs :
          (~req[r].fail /\ req'[r].fail)
          => /\ req'[r].pc = "done"
             /\ req'[r].status \notin {200, 409}
             /\ req'[r].status >= 400
             /\ kv' = kv]_vars

\* a write failed after a list had been stored
C6_Witness ==
    \E r \in Reqs : /\ Done(r) /\ req[r].fail /\ req[r].gets = 1
                    /\ Len(req[r].arr) > Len(kv.val) /\ kv.set

\* C7: a POST /claims with an index above MAX_INDEX is answered 400 without
\* reaching the store, and every persisted index lies in 0..MAX_INDEX.
C7_ClaimedWithinMax ==
    /\ \A r \in Started :
          (IsValidIndex(req[r].input) /\ req[r].input.v > MAX_INDEX)
          => Done(r) /\ req[r].status = 400 /\ req[r].gets = 0 /\ req[r].puts = 0
    /\ \A k \in DOMAIN kv.val : kv.val[k] \in 0..MAX_INDEX

\* the four invalid shapes of `index`
InvalidIndexShape(in) ==
    \/ in.typ = "undefined"
    \/ in.typ \notin {"undefined", "number", "badjson"}
    \/ in.typ = "number" /\ ~in.int
    \/ in.typ = "number" /\ in.int /\ in.v < 0

\* C8: a POST /claims whose index is missing, not a number, not an integer
\* or negative is answered 400 at once; the persisted list is not read,
\* not written and unchanged.
C8_InvalidIndexRejected ==
    [][\A r \in Reqs :
          (req[r].pc = "idle" /\ req'[r].pc # "idle" /\ InvalidIndexShape(req'[r].input))
          => /\ req'[r].pc = "done"
             /\ req'[r].status = 400
             /\ req'[r].gets = 0 /\ req'[r].puts = 0
             /\ kv' = kv]_vars

\* each invalid shape was rejected while the store held a list
C8_Witness ==
    /\ kv.set
    /\ \E r \in Reqs : Done(r) /\ req[r].input = Num(-1) /\ req[r].status = 400

\* C9: the array GET /claims returns is in ascending order.
C9_ListAscending ==
    getResp.outcome = "ok"
    => \A k \in 1..(Len(getResp.body) - 1) : getResp.body[k] <= getResp.body[k + 1]

\* C3: with requests handled one after another, once a POST /claims for i
\* was answered 200 a later POST /claims for i (the store being reachable)
\* is answered 409, never 200.
C3_RetryNeverGranted ==
    [][\A r \in Reqs :
          ( /\ ~Done(r) /\ req'[r].pc = "done"
            /\ IsValidIndex(req'[r].input) /\ ~req'[r].fail
            /\ \E q \in Reqs : /\ Done(q) /\ req[q].status = 200
                                /\ req[q].input.v = req'[r].input.v )
          => req'[r].status = 409]_vars

(* --------------------------- RPC properties --------------------------- *)
\* C10: when the primary answers with a status outside {403, 429, 500-599},
\* the primary is the only endpoint attempted and its response is returned
\* as it came.
C10_NonRetryableReturnedFromPrimary ==
    ( /\ rpc.forwarded
      /\ rpc.p.k = "resp"
      /\ rpc.p.status \notin ({403, 429} \cup (500..599)) )
    => /\ rpc.fwd.attempts = <<"primary">>
       /\ rpc.fwd.resp = rpc.p
       /\ rpc.status = rpc.p.status /\ rpc.body = rpc.p.body

\* a 404 of the primary came back although a backup is configured
C10_Witness ==
    /\ rpc.forwarded /\ env.BACKUP_RPC
    /\ rpc.p.k = "resp" /\ rpc.p.status = 404
    /\ rpc.fwd.resp.src = "primary" /\ rpc.status = 404

\* the primary attempt ended in a transport failure or a retryable status
Failed(o) == o.k = "throw" \/ o.status \in ({403, 429} \cup (500..599))

BackupAttempted == Len(rpc.fwd.attempts) = 2 /\ rpc.fwd.attempts[2] = "backup"

\* the attempts of a forward: the primary once and first, the backup at most
\* once and exactly when it is configured and the primary failed
AttemptsAsSpecified ==
    /\ Len(rpc.fwd.attempts) \in {1, 2}
    /\ rpc.fwd.attempts[1] = "primary"
    /\ Len(rpc.fwd.attempts) = 2 => rpc.fwd.attempts[2] = "backup"
    /\ BackupAttempted <=> (env.BACKUP_RPC /\ Failed(rpc.p))

\* C11 as stated: the primary is attempted once and first, the backup at most
\* once and exactly when configured and the primary failed, and the response
\* returned is then the backup's.
C11_BackupResponseReturned ==
    rpc.forwarded
    => /\ AttemptsAsSpecified
       /\ BackupAttempted => rpc.fwd.resp.src = "backup"

\* C11 amended: as above, but the response returned is the backup's when the
\* backup answered and the worker's own 599 when the backup attempt ended in
\* a transport failure.
C11_OneBackupAttempt ==
    rpc.forwarded
    => /\ AttemptsAsSpecified
       /\ (BackupAttempted /\ rpc.b.k = "resp") => rpc.fwd.resp = rpc.b
       /\ (BackupAttempted /\ rpc.b.k = "throw")
          => rpc.fwd.resp.status = 599 /\ rpc.fwd.resp.src = "worker"

\* the primary threw and the backup's answer came back
C11_Witness ==
    /\ rpc.forwarded /\ rpc.p.k = "throw"
    /\ BackupAttempted /\ rpc.b.k = "resp" /\ rpc.b.status = 200
    /\ rpc.status = 200 /\ rpc.fwd.resp.src = "backup"

\* C12: when the primary and the backup both fail (transport failure or a
\* retryable status), the result is the worker's own 599 response, not a
\* response of an upstream.
C12_BothFailedSynthesized ==
    (rpc.forwarded /\ Failed(rpc.p) /\ BackupAttempted /\ Failed(rpc.b))
    => rpc.fwd.resp.status = 599 /\ rpc.fwd.resp.src = "worker"

(* ------------------------- blockhash properties ----------------------- *)
\* C13: with calls one after another, a call that finds the cache non-empty
\* and younger than 10 s returns the cached value without a gateway call;
\* so a call within 10 s of an earlier call that fetched returns the same
\* value, with one gateway fetch for the two.
C13_CachedWithinTtl ==
    /\ [][\A c \in Callers :
             ( /\ bh[c].pc = "idle" /\ bh'[c].pc # "idle"
               /\ bhCache.value # "" /\ now - bhCache.ts < 10000 )
             => /\ bh'[c].pc = "done" /\ bh'[c].status = 200
                /\ bh'[c].value = bhCache.value
                /\ bh'[c].fetches = 0]_vars
    /\ [](\A c1, c2 \in Callers :
             ( /\ c1 < c2 /\ bh[c1].pc = "done" /\ bh[c2].pc = "done"
               /\ bh[c1].status = 200 /\ bh[c1].fetches = 1
               /\ bh[c2].t - bh[c1].t < 10000 )
             => /\ bh[c2].status = 200
                /\ bh[c2].value = bh[c1].value
                /\ bh[c1].fetches + bh[c2].fetches = 1)

\* a second call, 5 s after the call that fetched, got the same value
C13_Witness ==
    \E c1, c2 \in Callers :
        /\ c1 < c2 /\ bh[c1].pc = "done" /\ bh[c2].pc = "done"
        /\ bh[c1].fetches = 1 /\ bh[c1].status = 200
        /\ bh[c2].t > bh[c1].t /\ bh[c2].hit /\ bh[c2].value = bh[c1].value

\* C14: a call that ends returns either the value cached with an age below
\* 10 s at its check, or the value the gateway gave it in that call; when
\* it had to fetch and the gateway gave none, it ends in an error and
\* returns no value.
C14_NeverStale ==
    [][\A c \in Callers :
          (bh[c].pc # "done" /\ bh'[c].pc = "done")
          => /\ bh'[c].hit
                => /\ bhCache.value # "" /\ now - bhCache.ts < 10000
                   /\ bh'[c].value = bhCache.value /\ bh'[c].status = 200
             /\ (~bh'[c].hit /\ bh'[c].gave # "")
                => bh'[c].value = bh'[c].gave /\ bh'[c].status = 200
             /\ (~bh'[c].hit /\ bh'[c].gave = "")
                => bh'[c].value = "" /\ bh'[c].status >= 400]_vars

\* a call failed while the cache held an expired value
C14_Witness ==
    \E c \in Callers :
        /\ bh[c].pc = "done" /\ ~bh[c].hit /\ bh[c].status = 502
        /\ bhCache.value # "" /\ bh[c].t - bhCache.ts >= 10000

(* --------------------------- relay properties ------------------------- *)
\* a POST /relay with a tx that asks for the creator gate has been taken up
GateAsked == relay.pc # "idle" /\ relay.input.json /\ relay.input.tx
             /\ relay.input.requireCreator

NoGatewayCall == relay.sends = 0 /\ relay.bhCalls = 0 /\ relay.bhFetches = 0
                 /\ relay.confirms = 0

\* C15 as stated: with requireCreator, a signer that is missing or not equal
\* to the configured CREATOR_PUBKEY is answered 403 and no gateway call is
\* made.
C15_WrongSignerForbidden ==
    ( /\ GateAsked
      /\ env.CREATOR_PUBKEY # <<>>
      /\ (relay.input.signer = <<>> \/ relay.input.signer # env.CREATOR_PUBKEY) )
    => relay.pc = "done" /\ relay.status = 403 /\ NoGatewayCall

\* C15 amended: both strings are compared with their surrounding whitespace
\* removed; with a CREATOR_PUBKEY that is not blank, a signer that is blank
\* or differs from it is answered 403 and no gateway call is made.
C15_WrongSignerForbiddenTrimmed ==
    ( /\ GateAsked
      /\ Trim(env.CREATOR_PUBKEY) # <<>>
      /\ (Trim(relay.input.signer) = <<>>
            \/ Trim(relay.input.signer) # Trim(env.CREATOR_PUBKEY)) )
    => relay.pc = "done" /\ relay.status = 403 /\ NoGatewayCall

\* a missing signer was refused under a configured key
C15_Witness ==
    /\ GateAsked /\ env.CREATOR_PUBKEY = <<"K">> /\ relay.input.signer = <<>>
    /\ relay.pc = "done" /\ relay.status = 403 /\ relay.sends = 0

\* C16: with requireCreator and no CREATOR_PUBKEY configured the answer is
\* 412, whatever the signer, and no gateway call is made.
C16_GateNotConfigured ==
    (GateAsked /\ env.CREATOR_PUBKEY = <<>>)
    => relay.pc = "done" /\ relay.status = 412 /\ NoGatewayCall

\* the signer was a key, and the answer still 412
C16_Witness ==
    /\ GateAsked /\ env.CREATOR_PUBKEY = <<>> /\ relay.input.signer = <<"K">>
    /\ relay.pc = "done" /\ relay.status = 412

\* C17: when the send forward returned a status outside 200..299 (the 599
\* of the worker included) or an ok body with a JSON-RPC error, the relay
\* ends with an {error} answer, no signature, and neither a blockhash nor a
\* confirm call.
C17_SendFailureRejected ==
    ( /\ relay.sent
      /\ \/ relay.sendResp.status \notin 200..299
         \/ relay.sendResp.body = "error" )
    => /\ relay.pc = "done" /\ relay.status >= 400 /\ relay.kind = "error"
       /\ ~relay.hasSig /\ relay.sig = ""
       /\ relay.bhCalls = 0 /\ relay.bhFetches = 0 /\ relay.confirms = 0

\* an error object in a 200 body ended a relay that asked for confirmation
C17_Witness ==
    /\ relay.sent /\ relay.input.confirm
    /\ relay.sendResp.status = 200 /\ relay.sendResp.body = "error"
    /\ relay.pc = "done" /\ relay.status = 502

\* the send forward returned an ok answer without error
Submitted == relay.sent /\ relay.sendResp.status \in 200..299
             /\ relay.sendResp.body # "error"

\* C18: with confirm and a successful submission exactly one confirm call
\* is forwarded, after the send call; without confirm there is no confirm
\* call and no blockhash fetch.
C18_OneConfirmCall ==
    /\ relay.confirms <= 1 /\ relay.sends <= 1
    /\ relay.confirms = 1 => (Submitted /\ relay.sends = 1)
    /\ (relay.pc = "done" /\ Submitted /\ relay.input.confirm)
       => relay.confirms = 1 /\ relay.status = 200
    /\ (relay.pc # "idle" /\ ~relay.input.confirm)
       => relay.confirms = 0 /\ relay.bhCalls = 0 /\ relay.bhFetches = 0

\* a relay with confirm ended after its one confirm call
C18_Witness ==
    /\ relay.pc = "done" /\ relay.input.confirm /\ Submitted
    /\ relay.confirms = 1 /\ relay.confirm = "null" /\ relay.status = 200

\* C19: whatever fails, every request is answered with a status; no
\* exception leaves the handler.
C19_NoExceptionEscapes ==
    /\ getResp.outcome # "throws"
    /\ \A r \in Reqs : Done(r) => req[r].status \in 200..599

\* C20: a 200 answer of POST /relay carries a signature, the result of an
\* ok, error-free send response.
C20_SignatureInEvery200 ==
    (relay.pc = "done" /\ relay.status = 200)
    => /\ relay.hasSig
       /\ relay.sendResp.status \in 200..299 /\ relay.sendResp.body = "result"
       /\ relay.sig = (IF relay.sendResp.src = "primary" THEN "sigP" ELSE "sigB")

\* a POST /relay whose body was accepted (Received)
Received == relay.pc # "idle" /\ relay.input.json /\ relay.input.tx

\* the request ended in an error answer
Rejected == Received /\ relay.pc = "done" /\ relay.status >= 400

RejectedByGate ==
    /\ relay.input.requireCreator /\ relay.status \in {403, 412}
    /\ relay.sends = 0 /\ ~relay.sent

RejectedBySend ==
    /\ relay.sent /\ relay.sends = 1 /\ relay.status = 502
    /\ (relay.sendResp.status \notin 200..299 \/ relay.sendResp.body = "error")

\* C21: a received relay is rejected only by the gate or by a failed
\* submission; after a submission that did not fail the request ends, and
\* ends with status 200 and the signature, whether or not the blockhash
\* fetch gave a blockhash (the confirm call is made without one) and
\* whatever the confirm call ended in.
C21_RelayStateMachine ==
    /\ [](Rejected => (RejectedByGate \/ RejectedBySend))
    /\ []((Submitted /\ relay.pc = "done")
            => /\ relay.status = 200 /\ relay.kind = "signature"
               /\ relay.hasSig /\ relay.sig # ""
               /\ relay.input.confirm => relay.confirms = 1)
    /\ []((Submitted /\ relay.pc = "confirm" /\ relay.bhFetches = 1)
            => relay.confirms = 1)
    /\ ((Submitted /\ relay.pc # "done") ~> (relay.pc = "done" /\ relay.status = 200))

(* ------------------------- claims store properties -------------------- *)
NoDuplicates(arr) == \A j, k \in DOMAIN arr : arr[j] = arr[k] => j = k

\* C22: from a persisted list without duplicates, and with no remote list,
\* the persisted list has no duplicate index in any state the POST /claims
\* requests reach, however their steps interleave.
C22_PersistedDuplicateFree ==
    ~env.REMOTE_CLAIMS_URL => NoDuplicates(kv.val)

\* two requests for the same index each read the list before the other
\* wrote it, and both wrote
C22_Witness ==
    \E r, q \in Reqs :
        /\ r # q /\ Done(r) /\ Done(q)
        /\ req[r].status = 200 /\ req[q].status = 200
        /\ req[r].input.v = req[q].input.v
        /\ Len(kv.val) >= 2 /\ Includes(kv.val, req[r].input.v)

(* ------------------------- cache cell properties ---------------------- *)
\* caller c ends its refresh in this step
Completes(c) == bh[c].pc = "fetch" /\ bh'[c].pc = "done"

\* the cell changes only in a step that ends a refresh, and then holds the
\* blockhash that refresh fetched with the time at which its call started
LastWriterWins ==
    /\ \A c \in Callers :
          (Completes(c) /\ bh'[c].status = 200)
          => bhCache' = [value |-> bh'[c].value, ts |-> bh[c].t]
    /\ bhCache' # bhCache
       => \E c \in Callers : Completes(c) /\ bh'[c].status = 200

\* C23 as stated: with refreshes running together the cell holds the pair
\* written by the refresh that completed last, and the timestamp of the cell
\* never decreases from one state to the next.
C23_LastWriterMonotone ==
    [][LastWriterWins /\ bhCache'.ts >= bhCache.ts]_vars

\* C23 amended: the cell holds the blockhash of the refresh that completed
\* last together with the time at which that call started; the timestamp is
\* never ahead of the clock, and it decreases only when the refresh that
\* completes started before the one whose pair it overwrites.
C23_LastWriterWins ==
    /\ [][LastWriterWins]_vars
    /\ [](bhCache.ts <= now)
    /\ [][bhCache'.ts < bhCache.ts
            => \E c \in Callers : Completes(c) /\ bh[c].t = bhCache'.ts
                                    /\ bh[c].t < bhCache.ts]_vars

\* two refreshes overlapped; the one that started first completed last and
\* its pair is in the cell
C23_Witness ==
    \E c, d \in Callers :
        /\ bh[c].pc = "done" /\ bh[d].pc = "done"
        /\ bh[c].fetches = 1 /\ bh[d].fetches = 1
        /\ bh[c].status = 200 /\ bh[d].status = 200
        /\ bh[c].t < bh[d].t /\ bh[c].value # bh[d].value
        /\ bhCache = [value |-> bh[c].value, ts |-> bh[c].t]

\* C24: the step that ends a getLatestBlockhash call whose gateway answer
\* was not ok or carried no blockhash ends the call in an error and leaves
\* the cache cell, value and timestamp, as it was.
C24_FailureLeavesCell ==
    [][\A c \in Callers :
          (Completes(c) /\ bh'[c].gave = "")
          => /\ bh'[c].status >= 400
             /\ bhCache'.value = bhCache.value
             /\ bhCache'.ts = bhCache.ts]_vars

\* a call that started after the cell was filled failed, and the cell still
\* holds the pair another call wrote
C24_Witness ==
    \E c, d \in Callers :
        /\ c # d /\ bh[c].pc = "done" /\ bh[c].fetches = 1 /\ bh[c].gave = ""
        /\ bh[d].pc = "done" /\ bh[d].status = 200 /\ bh[d].fetches = 1
        /\ bh[c].t > bh[d].t
        /\ bhCache = [value |-> bh[d].value, ts |-> bh[d].t]

(* --------------------------- view properties -------------------------- *)
\* a GET of the given route is answered in this step
Answers(route) ==
    getResp'.n = getResp.n + 1 /\ getResp'.route = route /\ getResp'.outcome = "ok"

\* C25: whenever GET /claims/stats is answered, claimed_count + free_count
\* is MAX_INDEX + 1, free_count is not negative, and free_count is the
\* number of indices of 0..MAX_INDEX that are not claimed, which is the
\* length of the list GET /claims/free returns for the same store.
C25_StatsAddUp ==
    [][Answers("/claims/stats")
       => LET st == getResp'.stats
              claimed == ParseClaims(kv)
          IN  /\ st.claimed_count + st.free_count = MAX_INDEX + 1
              /\ st.free_count >= 0
              /\ st.free_count = Cardinality((0..MAX_INDEX) \ Range(claimed))
              /\ st.free_count = Len(FreeOf(claimed))]_vars

\* C26: when the list GET /claims would return now has the ETag an earlier
\* GET /claims returned, it is the array that GET returned.
C26_ETagIdentifiesList ==
    (getResp.route = "/claims" /\ getResp.outcome = "ok"
       /\ ETagOf(ParseClaims(kv)) = getResp.etag)
    => ParseClaims(kv) = getResp.body

====
